---- MODULE Spec2Model ----
(***************************************************************************)
(* A model of the BraTS training pipeline's glue code:                     *)
(*   - BraTSDataModule (training/data_module.py): K-fold split, the        *)
(*     per-stage record lists, setup(stage) and the three data loaders;    *)
(*   - UNetLightning (training/lightning.py): the epoch-end aggregation;   *)
(*   - the offline analysis script (evaluation/analyze.py).                *)
(* Python's None is the empty tuple and a present value x is <<x>>.        *)
(* Metric values are integers (tenths); a mean is kept as the exact        *)
(* fraction [num, den], so floating-point rounding is abstracted away.     *)
(***************************************************************************)
EXTENDS Integers, Sequences, FiniteSets, TLC

\* ---------------------------------------------------------------- bounds
MaxPatients == 6
MaxFolds == 6
MaxFoldIndex == 6
MaxSteps == 3
MaxMetric == 1
MaxResults == 3
MaxDice == 9
MaxTestPatients == 2
MaxBatch == 2
MaxTime == 1
MaxScore == 1
MaxFolders == 3

\* ------------------------------------------------------ program constants
\* range(5): the number of folds __init__ draws from the KFold generator
StoredFolds == 5

VARIABLES
    data_dir,   \* the patient folder ids found under the dataset root
    seedPerm,   \* the permutation RandomState(616) yields for len(data) indices
    dm,         \* the BraTSDataModule instance (its fields), None before __init__
    earlier,    \* n_folds and folds of the preceding run over the same data_dir
    last,       \* the last call made on the data module and its outcome
    outputs,    \* the step result mappings of the epoch, as the trainer hands them over
    epoch,      \* what the epoch-end hook of UNetLightning logged, or raised
    results,    \* the ResultsCollection np.load returns to the analysis script
    scan,       \* the analysis script's locals: position, best, id, dice, printed
    unet,       \* the UNetLightning instance: metrics, metrics_params, test_results
    trainer,    \* trainer.test of the test script: its batches, the step outputs, its position
    file,       \* the results file np.save writes, None while it does not exist
    root,       \* the dataset root of a get_data call: its name and its entries
    patients    \* what the get_data call returned or raised, None before it

dataVars == <<data_dir, seedPerm, dm, earlier, last>>
epochVars == <<outputs, epoch>>
analysisVars == <<results, scan>>
testVars == <<unet, trainer, file>>
pathVars == <<root, patients>>
vars == <<dataVars, epochVars, analysisVars, testVars, pathVars>>

None == <<>>
Some(x) == <<x>>
Val(o) == o[1]

\* ------------------------------------------------------------ get_data
\* BraTS20_Training_<i>: the id of the i-th patient folder
PatientId(i) == 100 + i

RECURSIVE sorted(_)
sorted(S) ==
    IF S = {} THEN <<>>
    ELSE LET m == CHOOSE x \in S : \A y \in S : x <= y
         IN <<m>> \o sorted(S \ {m})

\* one record per patient folder, in sorted id order; the data module's
\* specifications keep the id of each record only (get_data_paths below
\* builds the paths)
get_data(root_dir) ==
    LET ids == sorted(root_dir)
    IN [i \in 1..Len(ids) |-> [id |-> ids[i]]]

\* ------------------------------------------------------------ KFold
\* np.arange(n)
arange(n) == [i \in 1..n |-> i - 1]

\* KFold._iter_test_indices: fold i (0-based) of n samples in k folds has
\* n // k samples, the first n % k folds one more
fold_size(n, k, i) == (n \div k) + (IF i < n % k THEN 1 ELSE 0)

fold_start(n, k, i) == i * (n \div k) + (IF i < n % k THEN i ELSE n % k)

\* the shuffled indices of fold i: indices[current:current + fold_size]
test_indices(perm, n, k, i) ==
    { perm[j] - 1 : j \in (fold_start(n, k, i) + 1)..(fold_start(n, k, i) + fold_size(n, k, i)) }

\* BaseCrossValidator.split: (indices[~test_mask], indices[test_mask])
train_test(perm, n, k, i) ==
    LET test == test_indices(perm, n, k, i)
        InTest(x) == x \in test
        NotInTest(x) == x \notin test
    IN <<SelectSeq(arange(n), NotInTest), SelectSeq(arange(n), InTest)>>

\* the k pairs the generator splitter.split(data) yields, in order
split(perm, n, k) == [i \in 1..k |-> train_test(perm, n, k, i - 1)]

\* KFold(shuffle=True, random_state=616): check_random_state(616) builds a
\* fresh RandomState(616) on every split, so the shuffle is the seed's own
ShuffleOutcomesUnseeded ==
    {seedPerm, [i \in 1..Len(seedPerm) |-> seedPerm[Len(seedPerm) + 1 - i]]}
ShuffleOutcomes == {seedPerm}

\* ------------------------------------------------------------ __init__
\* Python list indexing: i in [0, len) or, from the end, in [-len, 0)
InRange(list, i) == -Len(list) <= i /\ i < Len(list)
Item(list, i) == IF i >= 0 THEN list[i + 1] ELSE list[Len(list) + i + 1]

\* [self.data[idx] for idx in indices]
Records(data, indices) == [j \in 1..Len(indices) |-> data[indices[j] + 1]]

\* self.test_data = self.validation_data
TestDataOfTraining(training_data, validation_data) == training_data
TestDataOf(training_data, validation_data) == validation_data

\* self.visualization_data = self.validation_data
VisualizationDataOf(training_data, validation_data) == validation_data

\* the fields after lines 78-115
Fresh(n_folds, fold_index) ==
    [ n_folds |-> n_folds, fold_index |-> fold_index,
      data |-> Some(get_data(data_dir)), folds |-> None,
      training_data |-> None, validation_data |-> None,
      test_data |-> None, visualization_data |-> None,
      training_set |-> None, validation_set |-> None,
      test_set |-> None, visualization_set |-> None,
      error |-> "none" ]

\* [self.data[idx] for idx in self.folds[self.fold_index][0]]
TrainingDataOfFold(data, fold) == Records(data, fold[2])
TrainingDataOf(data, fold) == Records(data, fold[1])

\* BraTSDataModule.__init__ with the shuffle perm: the instance's fields when
\* the constructor returns or raises (error names the exception)
Constructed(n_folds, fold_index, perm) ==
    LET self == Fresh(n_folds, fold_index)
        data == get_data(data_dir)
        n == Len(data)
    IN IF n_folds <= 1 THEN [self EXCEPT !.error = "ValueError"]
       ELSE IF n_folds > n THEN [self EXCEPT !.error = "ValueError"]
       ELSE IF n_folds < StoredFolds THEN [self EXCEPT !.error = "StopIteration"]
       ELSE LET folds == SubSeq(split(perm, n, n_folds), 1, StoredFolds)
            IN IF ~InRange(folds, fold_index)
               THEN [self EXCEPT !.folds = Some(folds), !.error = "IndexError"]
               ELSE LET fold == Item(folds, fold_index)
                        training_data == TrainingDataOf(data, fold)
                        validation_data == Records(data, fold[2])
                    IN [self EXCEPT
                          !.folds = Some(folds),
                          !.training_data = Some(training_data),
                          !.validation_data = Some(validation_data),
                          !.test_data = Some(TestDataOf(training_data, validation_data)),
                          !.visualization_data =
                              Some(VisualizationDataOf(training_data, validation_data))]

\* the record of a call: its name, its stage argument, what it returned or
\* raised, and the dataset a returned loader is bound to
Called(op, stage, outcome, dataset) ==
    Some([op |-> op, stage |-> stage, outcome |-> outcome, dataset |-> dataset])

FoldCounts == 1..MaxFolds
FoldIndices == (0 - MaxFoldIndex)..MaxFoldIndex

\* brats = BraTSDataModule(data_dir, n_folds=K, fold_index=f)
BraTSDataModule(n_folds, fold_index) ==
    /\ dm = None
    /\ \E perm \in ShuffleOutcomes :
          LET self == Constructed(n_folds, fold_index, perm)
          IN /\ dm' = Some(self)
             /\ last' = Called("__init__", None, self.error, None)
    /\ UNCHANGED <<data_dir, seedPerm, earlier, epochVars, analysisVars, testVars, pathVars>>

\* a repeated run of a run that completed: the same script with the same
\* arguments on the same data
Rerun ==
    /\ dm # None
    /\ Val(dm).error = "none"
    /\ earlier = None
    /\ \E perm \in ShuffleOutcomes :
          dm' = Some(Constructed(Val(dm).n_folds, Val(dm).fold_index, perm))
    /\ earlier' = Some([n_folds |-> Val(dm).n_folds, folds |-> Val(dm).folds])
    /\ last' = Called("__init__", None, "none", None)
    /\ UNCHANGED <<data_dir, seedPerm, epochVars, analysisVars, testVars, pathVars>>

\* ------------------------------------------------------------ setup
\* monai Dataset(data=..., transform=...)
Dataset(data, transform) == Some([data |-> data, transform |-> transform])

\* stage == "fit" or stage is None
FitStageFitOnly(stage) == stage = Some("fit")
FitStage(stage) == stage = Some("fit") \/ stage = None

\* stage == "test" or stage is None
TestStageUnlessVisualize(stage) == stage # Some("visualize")
TestStage(stage) == stage = Some("test") \/ stage = None

\* stage == "visualize" or stage is None
VisualizeStage(stage) == stage = Some("visualize") \/ stage = None

\* the instance's fields after self.setup(stage)
SetUp(self, stage) ==
    LET fit == IF FitStage(stage)
               THEN [self EXCEPT
                       !.training_set = Dataset(self.training_data, "training_transform"),
                       !.validation_set = Dataset(self.validation_data, "validation_transform")]
               ELSE self
        test == IF TestStage(stage)
                THEN [fit EXCEPT !.test_set = Dataset(self.test_data, "test_transform")]
                ELSE fit
    IN IF VisualizeStage(stage)
       THEN [test EXCEPT !.visualization_set =
                 Dataset(self.visualization_data, "visualization_transform")]
       ELSE test

\* the stage arguments: the three stages, the default None, and a stage
\* string setup does not know
Stages == {None, Some("fit"), Some("test"), Some("visualize"), Some("predict")}

\* an instance exists only when __init__ returned
Alive == dm # None /\ Val(dm).error = "none"

setup(stage) ==
    /\ Alive
    /\ dm' = Some(SetUp(Val(dm), stage))
    /\ last' = Called("setup", stage, "none", None)
    /\ UNCHANGED <<data_dir, seedPerm, earlier, epochVars, analysisVars, testVars, pathVars>>

\* ------------------------------------------------------------ loaders
\* torch DataLoader(dataset, shuffle=...): with shuffle the RandomSampler
\* takes len(dataset) at once (TypeError on None); without, the
\* SequentialSampler only stores the dataset and a loader is returned
DataLoader(dataset, shuffle) ==
    IF dataset = None /\ shuffle THEN "TypeError" ELSE "DataLoader"

train_dataloader ==
    /\ Alive
    /\ last' = Called("train_dataloader", None,
                      DataLoader(Val(dm).training_set, TRUE), Val(dm).training_set)
    /\ UNCHANGED <<data_dir, seedPerm, dm, earlier, epochVars, analysisVars, testVars, pathVars>>

val_dataloader ==
    /\ Alive
    /\ last' = Called("val_dataloader", None,
                      DataLoader(Val(dm).validation_set, FALSE), Val(dm).validation_set)
    /\ UNCHANGED <<data_dir, seedPerm, dm, earlier, epochVars, analysisVars, testVars, pathVars>>

test_dataloader ==
    /\ Alive
    /\ last' = Called("test_dataloader", None,
                      DataLoader(Val(dm).test_set, FALSE), Val(dm).test_set)
    /\ UNCHANGED <<data_dir, seedPerm, dm, earlier, epochVars, analysisVars, testVars, pathVars>>

\* ------------------------------------------------------------ epoch end
\* the metric keys a step result mapping may hold
MetricNames == {"loss", "val_dice_metric"}

\* a step result mapping: metric key -> value
StepResults == UNION { [keys -> 0..MaxMetric] : keys \in SUBSET MetricNames }

RECURSIVE SeqsUpTo(_, _)
SeqsUpTo(S, n) ==
    IF n = 0 THEN {<<>>}
    ELSE LET shorter == SeqsUpTo(S, n - 1)
         IN shorter \cup { Append(q, x) : q \in { r \in shorter : Len(r) = n - 1 }, x \in S }

\* the iteration orders of a dict whose keys are keys
Orderings(keys) ==
    { o \in [1..Cardinality(keys) -> keys] : \A i, j \in 1..Cardinality(keys) : o[i] = o[j] => i = j }

\* metric_total = 0.0; for output in outputs: metric_total += output[metric_name]
RECURSIVE accumulate(_, _)
accumulate(outs, metric_name) ==
    IF outs = <<>> THEN 0
    ELSE Head(outs)[metric_name] + accumulate(Tail(outs), metric_name)

metric_total_after_first(outs, metric_name) == accumulate(Tail(outs), metric_name)
metric_total(outs, metric_name) == accumulate(outs, metric_name)

\* metric_total / len(outputs), as an exact fraction
divide(total, count) == [num |-> total, den |-> count]

\* for metric_name in metrics_dict: ... self.log(...); add_scalar(...)
\* output[metric_name] raises KeyError at the first key a step lacks
RECURSIVE log_metrics(_, _, _, _)
log_metrics(outs, names, phase, self) ==
    IF names = <<>> THEN self
    ELSE LET metric_name == Head(names)
         IN IF \E i \in 1..Len(outs) : metric_name \notin DOMAIN outs[i]
            THEN [self EXCEPT !.raised = "KeyError"]
            ELSE LET metric_value == divide(metric_total(outs, metric_name), Len(outs))
                 IN log_metrics(outs, Tail(names), phase,
                       [self EXCEPT
                          !.logged = Append(@, [name |-> metric_name, value |-> metric_value]),
                          !.scalars = Append(@, [tag |-> <<metric_name, phase>>,
                                                 value |-> metric_value,
                                                 step |-> self.current_epoch])])

\* the hook's body: dict.fromkeys(outputs[0]) raises IndexError on no outputs
epoch_end(hook, phase, order) ==
    LET self == [epoch EXCEPT !.hook = hook]
    IN IF outputs = <<>> THEN [self EXCEPT !.raised = "IndexError"]
       ELSE log_metrics(outputs, order, phase, self)

FirstKeys == IF outputs = <<>> THEN {} ELSE DOMAIN outputs[1]

training_epoch_end ==
    /\ epoch.hook = "none"
    /\ \E order \in Orderings(FirstKeys) :
          epoch' = epoch_end("training_epoch_end", "train", order)
    /\ UNCHANGED <<outputs, dataVars, analysisVars, testVars, pathVars>>

validation_epoch_end ==
    /\ epoch.hook = "none"
    /\ \E order \in Orderings(FirstKeys) :
          epoch' = epoch_end("validation_epoch_end", "val", order)
    /\ UNCHANGED <<outputs, dataVars, analysisVars, testVars, pathVars>>

\* ------------------------------------------------------------ analysis
\* if res['test_dice_metric'] > best: id = res['id']
id_after_not_below(id, best, res) == IF res.test_dice_metric >= best THEN Some(res.id) ELSE id
id_after(id, best, res) == IF res.test_dice_metric > best THEN Some(res.id) ELSE id

\* best = 0 is never assigned again
best_after(best, res) == best

\* np.mean(dice): sum over count, 0/0 (nan) on no records
RECURSIVE total(_)
total(values) == IF values = <<>> THEN 0 ELSE Head(values) + total(Tail(values))

np_mean(values) == [num |-> total(values), den |-> Len(values)]

\* one pass of `for res in results`
loop_body ==
    /\ scan.pos < Len(results)
    /\ LET res == results[scan.pos + 1]
       IN scan' = [scan EXCEPT
                     !.pos = @ + 1,
                     !.id = id_after(scan.id, scan.best, res),
                     !.best = best_after(scan.best, res),
                     !.dice = Append(@, res.test_dice_metric)]
    /\ UNCHANGED <<results, dataVars, epochVars, testVars, pathVars>>

\* print('dice: ', np.mean(dice)), after the loop
print_means ==
    /\ scan.pos = Len(results)
    /\ scan.printed = None
    /\ scan' = [scan EXCEPT !.printed = Some(np_mean(scan.dice))]
    /\ UNCHANGED <<results, dataVars, epochVars, testVars, pathVars>>

\* ------------------------------------------------------------ test run
\* the metric functions of the test script, in its order
MetricFunctions == <<"dice_metric", "hd_metric">>

\* f"test_{m.__name__}"
TestKey(m) == IF m = "dice_metric" THEN "test_dice_metric" ELSE "test_hd_metric"

\* [{}] * n_metrics if metrics_params is None else metrics_params
MetricsParams(metrics, metrics_params) ==
    IF metrics_params = None THEN [i \in 1..Len(metrics) |-> "{}"] ELSE Val(metrics_params)

\* UNetLightning.__init__: the metrics, their parameters, no test results yet
UNetLightning(metrics, metrics_params) ==
    [metrics |-> metrics,
     metrics_params |-> MetricsParams(metrics, metrics_params),
     test_results |-> None]

\* the metrics zip(self.metrics, self.metrics_params) pairs with parameters
Zipped(self) ==
    LET n == IF Len(self.metrics) <= Len(self.metrics_params)
             THEN Len(self.metrics) ELSE Len(self.metrics_params)
    IN SubSeq(self.metrics, 1, n)

\* id = id[0] if len(id) == 1 else tuple(id)
IdOf(ids) == IF Len(ids) = 1 THEN [tuple |-> FALSE, of |-> <<ids[1]>>]
             ELSE [tuple |-> TRUE, of |-> ids]

\* the output dict of test_step: id, time and one key per zipped metric
TestOutput(self, batch, duration, values) ==
    LET keys == {"id", "time"} \cup { TestKey(Zipped(self)[i]) : i \in 1..Len(Zipped(self)) }
    IN [k \in keys |->
          IF k = "id" THEN IdOf(batch.id)
          ELSE IF k = "time" THEN [seconds |-> duration]
          ELSE [metric_value |-> values[k]]]

\* the batches a loader of batch_size b makes of n test patients, in order
Batches(n, b) ==
    [j \in 1..((n + b - 1) \div b) |->
        [id |-> [i \in 1..(IF j * b <= n THEN b ELSE n - (j - 1) * b) |->
                    PatientId((j - 1) * b + i)]]]

\* the trainer calls test_step on the next batch and keeps what it returns
test_step ==
    /\ trainer.pc = "testing"
    /\ Len(trainer.outputs) < Len(trainer.batches)
    /\ LET batch == trainer.batches[Len(trainer.outputs) + 1]
           keys == { TestKey(Zipped(unet)[i]) : i \in 1..Len(Zipped(unet)) }
       IN \E duration \in 0..MaxTime, values \in [keys -> 0..MaxScore] :
             trainer' = [trainer EXCEPT
                           !.outputs = Append(@, TestOutput(unet, batch, duration, values))]
    /\ UNCHANGED <<unet, file, dataVars, epochVars, analysisVars, pathVars>>

\* test_inference or a metric raises inside test_step: no local recovery, the
\* error leaves trainer.test and ends the script
test_step_raises ==
    /\ trainer.pc = "testing"
    /\ Len(trainer.outputs) < Len(trainer.batches)
    /\ trainer' = [trainer EXCEPT !.pc = "aborted", !.raised = "Exception"]
    /\ UNCHANGED <<unet, file, dataVars, epochVars, analysisVars, pathVars>>

\* self.test_results = outputs
test_results_without_last(outs) == SubSeq(outs, 1, Len(outs) - 1)
test_results_of(outs) == outs

test_epoch_end ==
    /\ trainer.pc = "testing"
    /\ Len(trainer.outputs) = Len(trainer.batches)
    /\ unet' = [unet EXCEPT !.test_results = Some(test_results_of(trainer.outputs))]
    /\ trainer' = [trainer EXCEPT !.pc = "tested"]
    /\ UNCHANGED <<file, dataVars, epochVars, analysisVars, pathVars>>

\* the script reaches np.save only when trainer.test returned
SaveReachedEvenAborted == trainer.pc \in {"tested", "aborted"}
SaveReached == trainer.pc = "tested"

\* results = model.test_results; np.save(file=..., arr=results)
np_save ==
    /\ SaveReached
    /\ file' = Some(unet.test_results)
    /\ trainer' = [trainer EXCEPT !.pc = "saved"]
    /\ UNCHANGED <<unet, dataVars, epochVars, analysisVars, pathVars>>

\* ------------------------------------------------------------ get_data paths
\* the input modalities in the order of path_dict['input']
Modalities == <<"t1", "t1ce", "t2", "flair">>

\* the image files of a complete, labeled patient folder
CompleteFolder ==
    { [modality |-> Modalities[k], copy |-> 1] : k \in 1..Len(Modalities) }
        \cup { [modality |-> "seg", copy |-> 1] }

\* the folders the scan may meet: complete, with a second t1 file, or with
\* one file missing
FolderKinds ==
    {CompleteFolder, CompleteFolder \cup {[modality |-> "t1", copy |-> 2]}}
        \cup { CompleteFolder \ {f} : f \in CompleteFolder }

\* entry names: BraTS20_Training_<n>, and two names of other files
PatientFolder(n) == [prefix |-> "BraTS20", n |-> n]
OtherEntries == { [prefix |-> ".DS_Store", n |-> 0], [prefix |-> "name_mapping.csv", n |-> 0] }

\* id.startswith('BraTS20')
IsPatient(name) == name.prefix = "BraTS20"

\* string order of the entry names: '.' < 'B' < 'n', then the padded number
NameKey(name) ==
    (IF name.prefix = ".DS_Store" THEN 0 ELSE IF name.prefix = "BraTS20" THEN 1 ELSE 2)
        * (MaxFolders + 1) + name.n

\* sorted(listdir(root_dir))
RECURSIVE sorted_names(_)
sorted_names(S) ==
    IF S = {} THEN <<>>
    ELSE LET m == CHOOSE x \in S : \A y \in S : NameKey(x) <= NameKey(y)
         IN <<m>> \o sorted_names(S \ {m})

listdir(dir) == { e.name : e \in dir.entries }

FilesOf(dir, name) == (CHOOSE e \in dir.entries : e.name = name).files

\* glob(join(root_dir, id, "*<modality>.*")), "*seg*" for the target: the
\* paths of the matching files, in no order the code controls
globAnyPrefix(dir, id, modality) ==
    { [id |-> id, file |-> f] : f \in { g \in FilesOf(dir, id) :
          g.modality = modality \/ (modality = "t1" /\ g.modality = "t1ce") } }
glob(dir, id, modality) ==
    { [id |-> id, file |-> f] : f \in { g \in FilesOf(dir, id) : g.modality = modality } }

\* glob(...)[0] raises IndexError on no match
Misses(dir, id, labeled) ==
    \/ \E k \in 1..Len(Modalities) : glob(dir, id, Modalities[k]) = {}
    \/ labeled /\ glob(dir, id, "seg") = {}

\* the path_dict values the loop body can build for one id
PathDicts(dir, id, labeled) ==
    LET inputs == { <<a, b, c, d>> : a \in glob(dir, id, "t1"), b \in glob(dir, id, "t1ce"),
                                     c \in glob(dir, id, "t2"), d \in glob(dir, id, "flair") }
    IN IF labeled
       THEN { [id |-> id, input |-> i, target |-> t] : i \in inputs, t \in glob(dir, id, "seg") }
       ELSE { [id |-> id, input |-> i] : i \in inputs }

\* for id in ids: ... patients.append(path_dict): the lists the loop can end
\* with, or the IndexError of the first folder that misses a file
RECURSIVE Scanned(_, _, _)
Scanned(dir, ids, labeled) ==
    IF ids = <<>> THEN {[raised |-> "none", value |-> <<>>]}
    ELSE IF Misses(dir, Head(ids), labeled) THEN {[raised |-> "IndexError", value |-> <<>>]}
    ELSE { IF rest.raised = "none"
           THEN [raised |-> "none", value |-> <<path_dict>> \o rest.value]
           ELSE rest :
               path_dict \in PathDicts(dir, Head(ids), labeled),
               rest \in Scanned(dir, Tail(ids), labeled) }

\* what get_data(root_dir, labeled) can return or raise
get_data_paths(dir, labeled) ==
    IF ~dir.name_ok THEN {[raised |-> "AssertionError", value |-> <<>>]}
    ELSE LET names == sorted_names(listdir(dir))
             ids == SelectSeq(names, IsPatient)
         IN Scanned(dir, ids, labeled)

get_data_call(labeled) ==
    /\ patients = None
    /\ \E outcome \in get_data_paths(root, labeled) :
          patients' = Some([labeled |-> labeled, raised |-> outcome.raised,
                            value |-> outcome.value])
    /\ UNCHANGED <<root, dataVars, epochVars, analysisVars, testVars>>

\* ------------------------------------------------------------ specifications
NoData ==
    /\ data_dir = {}
    /\ seedPerm = <<>>
    /\ dm = None
    /\ earlier = None
    /\ last = None

\* self.log and the logger before the hook runs
NewEpoch == [hook |-> "none", logged |-> <<>>, scalars |-> <<>>,
             raised |-> "none", current_epoch |-> 0]

NoEpoch ==
    /\ outputs = <<>>
    /\ epoch = NewEpoch

\* best = 0; id = None; dice = []
NewScan == [pos |-> 0, best |-> 0, id |-> None, dice |-> <<>>, printed |-> None]

NoAnalysis ==
    /\ results = <<>>
    /\ scan = NewScan

\* no model wrapper, no test run, no results file
NoTest ==
    /\ unet = UNetLightning(<<>>, None)
    /\ trainer = [pc |-> "idle", batches |-> <<>>, outputs |-> <<>>, raised |-> "none"]
    /\ file = None

\* no get_data call under way
NoPaths ==
    /\ root = [name_ok |-> TRUE, entries |-> {}]
    /\ patients = None

AllShuffles(n) == Permutations(1..n)

\* two shuffles per size, for the operations that never read the shuffle
SomeShuffles(n) == { [i \in 1..n |-> i], [i \in 1..n |-> n + 1 - i] }

\* a data directory of n patient folders and the seed's shuffle of n indices
DataDir(n, shuffles) ==
    /\ data_dir = { PatientId(i) : i \in 1..n }
    /\ seedPerm \in shuffles
    /\ dm = None
    /\ earlier = None
    /\ last = None

\* the fold computation, over every shuffle the seed could stand for
InitFolds ==
    /\ \E n \in 0..MaxPatients : DataDir(n, AllShuffles(n))
    /\ NoEpoch /\ NoAnalysis /\ NoTest /\ NoPaths

NextFolds ==
    \/ \E n_folds \in FoldCounts, fold_index \in FoldIndices :
          BraTSDataModule(n_folds, fold_index)
    \/ Rerun

SpecFolds == InitFolds /\ [][NextFolds]_vars

\* the data module's lifecycle: construction, setup calls, loader calls
Init ==
    /\ \E n \in 0..MaxPatients : DataDir(n, SomeShuffles(n))
    /\ NoEpoch /\ NoAnalysis /\ NoTest /\ NoPaths

Next ==
    \/ \E n_folds \in FoldCounts, fold_index \in FoldIndices :
          BraTSDataModule(n_folds, fold_index)
    \/ \E stage \in Stages : setup(stage)
    \/ train_dataloader
    \/ val_dataloader
    \/ test_dataloader

Spec == Init /\ [][Next]_vars

\* one epoch end of the model wrapper, over every sequence of step results
InitEpoch ==
    /\ NoData /\ NoAnalysis /\ NoTest /\ NoPaths
    /\ outputs \in SeqsUpTo(StepResults, MaxSteps)
    /\ epoch = NewEpoch

NextEpoch ==
    \/ training_epoch_end
    \/ validation_epoch_end

SpecEpoch == InitEpoch /\ [][NextEpoch]_vars

\* one version's scan of the analysis script, over every results file
DiceLists == UNION { [1..n -> 0..MaxDice] : n \in 0..MaxResults }

ResultsFiles ==
    { [i \in 1..Len(d) |-> [id |-> PatientId(i), test_dice_metric |-> d[i]]] : d \in DiceLists }

InitAnalysis ==
    /\ NoData /\ NoEpoch /\ NoTest /\ NoPaths
    /\ results \in ResultsFiles
    /\ scan = NewScan

NextAnalysis ==
    \/ loop_body
    \/ print_means

SpecAnalysis == InitAnalysis /\ [][NextAnalysis]_vars

\* the test script: the model wrapper as configured, trainer.test over the
\* batches of the test loader, then np.save
MetricLists == { SubSeq(MetricFunctions, 1, n) : n \in 0..Len(MetricFunctions) }

ParamLists == {None} \cup { Some([i \in 1..n |-> "{}"]) : n \in 0..Len(MetricFunctions) }

InitTest ==
    /\ NoData /\ NoEpoch /\ NoAnalysis /\ NoPaths
    /\ \E metrics \in MetricLists, metrics_params \in ParamLists :
          unet = UNetLightning(metrics, metrics_params)
    /\ \E n \in 1..MaxTestPatients, b \in 1..MaxBatch :
          trainer = [pc |-> "testing", batches |-> Batches(n, b),
                     outputs |-> <<>>, raised |-> "none"]
    /\ file = None

NextTest ==
    \/ test_step
    \/ test_step_raises
    \/ test_epoch_end
    \/ np_save

SpecTest == InitTest /\ [][NextTest]_vars

\* one get_data call, over every small dataset root
Roots ==
    { [name_ok |-> ok,
       entries |-> { [name |-> PatientFolder(n), files |-> kinds[n]] : n \in present }
                      \cup { [name |-> o, files |-> {}] : o \in others }] :
          ok \in BOOLEAN, others \in SUBSET OtherEntries,
          present \in SUBSET (1..MaxFolders), kinds \in [1..MaxFolders -> FolderKinds] }

InitPaths ==
    /\ NoData /\ NoEpoch /\ NoAnalysis /\ NoTest
    /\ root \in Roots
    /\ patients = None

NextPaths == \E labeled \in BOOLEAN : get_data_call(labeled)

SpecPaths == InitPaths /\ [][NextPaths]_vars

\* ------------------------------------------------------------ data module properties
NPatients == Cardinality(data_dir)

\* the record indices 0..N-1
Indices == 0..(NPatients - 1)

Elements(seq) == { seq[i] : i \in 1..Len(seq) }

NoDuplicates(seq) == \A i, j \in 1..Len(seq) : seq[i] = seq[j] => i = j

\* the stored folds whose validation indices hold idx
ValidatingFolds(folds, idx) == { k \in 1..Len(folds) : idx \in Elements(folds[k][2]) }

\* n_folds and the data are a pair KFold accepts
SplittableRun == dm # None /\ 2 <= Val(dm).n_folds /\ Val(dm).n_folds <= NPatients

\* C1: constructing the data module over N records with n_folds = K stores
\* exactly K folds, and every record index 0..N-1 is in the validation
\* indices of exactly one stored fold.
C1_KFoldsPartitionIndices ==
    SplittableRun =>
        /\ Val(dm).folds # None
        /\ Len(Val(Val(dm).folds)) = Val(dm).n_folds
        /\ \A idx \in Indices :
              Cardinality(ValidatingFolds(Val(Val(dm).folds), idx)) = 1

\* C2: for the fold fold_index selects, the training records and the
\* validation records are disjoint and together hold every patient record
\* exactly once.
C2_SelectedFoldPartitionsRecords ==
    Alive =>
        LET both == Val(Val(dm).training_data) \o Val(Val(dm).validation_data)
        IN /\ NoDuplicates(both)
           /\ Elements(both) = Elements(Val(Val(dm).data))
           /\ Elements(Val(Val(dm).training_data))
                 \cap Elements(Val(Val(dm).validation_data)) = {}

\* a completed construction whose folds are uneven: the validation records
\* of the selected fold are two, of more records than folds
C2_Witness ==
    /\ Alive
    /\ NPatients > Val(dm).n_folds
    /\ Len(Val(Val(dm).validation_data)) = 2
    /\ Len(Val(Val(dm).training_data)) = NPatients - 2

\* C3: a fold index outside [0, K) (negative or >= K) makes the construction
\* fail with an index error and leaves the training and validation records
\* unset; every fold index inside [0, K) is accepted (stated for the runs
\* that stored all K folds).
C3_FoldIndexCheckedAgainstK ==
    (SplittableRun /\ Val(dm).folds # None /\ Len(Val(Val(dm).folds)) = Val(dm).n_folds) =>
        IF 0 <= Val(dm).fold_index /\ Val(dm).fold_index < Val(dm).n_folds
        THEN Val(dm).error = "none"
        ELSE /\ Val(dm).error = "IndexError"
             /\ Val(dm).training_data = None
             /\ Val(dm).validation_data = None

C5_EvaluationListsSameRecords ==
    dm # None =>
        /\ Val(dm).test_data = Val(dm).validation_data
        /\ Val(dm).visualization_data = Val(dm).validation_data

\* after a setup call on a module whose validation list is not empty
C5_Witness ==
    /\ Alive
    /\ last # None /\ Val(last).op = "setup"
    /\ Val(dm).test_set # None
    /\ Len(Val(Val(dm).validation_data)) >= 1
    /\ Len(Val(Val(dm).test_data)) >= 1

LoaderCalls == {"train_dataloader", "val_dataloader", "test_dataloader"}

\* C6: a loader call made while setup has not built its dataset subset
\* fails (the error standing for NotInitializedError) and returns no loader.
C6_LoaderBeforeSetupFails ==
    (last # None /\ Val(last).op \in LoaderCalls /\ Val(last).dataset = None) =>
        Val(last).outcome # "DataLoader"

\* C7: setup(stage) builds the subsets of its stage: fit the training and the
\* validation subset, test the test subset, visualize the visualization
\* subset, and the stage for all (the default, no stage given) all four.
C7_SetupBuildsStageSubsets ==
    (last # None /\ Val(last).op = "setup") =>
        LET self == Val(dm)
            stage == Val(last).stage
            fit == /\ self.training_set = Dataset(self.training_data, "training_transform")
                   /\ self.validation_set = Dataset(self.validation_data, "validation_transform")
            test == self.test_set = Dataset(self.test_data, "test_transform")
            visualize == self.visualization_set =
                             Dataset(self.visualization_data, "visualization_transform")
        IN /\ stage = Some("fit") => fit
           /\ stage = Some("test") => test
           /\ stage = Some("visualize") => visualize
           /\ stage = None => fit /\ test /\ visualize

\* setup() with no stage on a fresh module with records in both lists
C7_Witness ==
    /\ last # None /\ Val(last).op = "setup" /\ Val(last).stage = None
    /\ Val(dm).training_set # None /\ Val(dm).validation_set # None
    /\ Val(dm).test_set # None /\ Val(dm).visualization_set # None
    /\ Len(Val(Val(dm).training_data)) >= 1
    /\ Len(Val(Val(dm).validation_data)) >= 1

\* ------------------------------------------------------------ epoch-end properties
HookRan == epoch.hook # "none"

\* every step result mapping holds the keys of the first
SameKeys == \A i \in 1..Len(outputs) : DOMAIN outputs[i] = DOMAIN outputs[1]

\* the sum of the step values of metric x, step by step from the last
RECURSIVE StepSum(_, _)
StepSum(x, m) == IF m = 0 THEN 0 ELSE StepSum(x, m - 1) + outputs[m][x]

LoggedAs(x) == { i \in 1..Len(epoch.logged) : epoch.logged[i].name = x }

\* C8: over a non-empty sequence of M step result mappings with the same
\* metric keys, the epoch-end hook reports for every key x exactly once the
\* value (sum of the M step values of x) / M, and raises nothing.
C8_EpochEndReportsMean ==
    (HookRan /\ outputs # <<>> /\ SameKeys) =>
        /\ epoch.raised = "none"
        /\ Len(epoch.logged) = Cardinality(DOMAIN outputs[1])
        /\ Len(epoch.scalars) = Len(epoch.logged)
        /\ \A x \in DOMAIN outputs[1] :
              /\ Cardinality(LoggedAs(x)) = 1
              /\ \A i \in LoggedAs(x) :
                    /\ epoch.logged[i].value.den = Len(outputs)
                    /\ epoch.logged[i].value.num = StepSum(x, Len(outputs))
                    /\ epoch.scalars[i].value = epoch.logged[i].value

\* the hook ran over three steps of two metrics, with a mean that is no
\* step's value
C8_Witness ==
    /\ HookRan /\ SameKeys
    /\ Len(outputs) = 3
    /\ DOMAIN outputs[1] = MetricNames
    /\ Len(epoch.logged) = 2
    /\ \E i \in 1..2 : epoch.logged[i].value = [num |-> 2, den |-> 3]

\* C9: when the step result mappings of the epoch do not all hold the same
\* metric keys (a later step lacks a key of the first, or holds a key the
\* first lacks), the epoch-end hook fails and reports no mean (stated for a
\* first step that holds a metric).
C9_MismatchedKeysFail ==
    (HookRan /\ outputs # <<>> /\ DOMAIN outputs[1] # {} /\ ~SameKeys) =>
        /\ epoch.raised # "none"
        /\ epoch.logged = <<>>

\* ------------------------------------------------------------ analysis properties
ScanDone == scan.pos = Len(results)

MaxDiceOf(rs) == CHOOSE d \in { rs[i].test_dice_metric : i \in 1..Len(rs) } :
                     \A i \in 1..Len(rs) : rs[i].test_dice_metric <= d

\* the first record holding the maximum test_dice_metric
FirstMaximum(rs) ==
    CHOOSE i \in 1..Len(rs) :
        /\ rs[i].test_dice_metric = MaxDiceOf(rs)
        /\ \A j \in 1..(i - 1) : rs[j].test_dice_metric < MaxDiceOf(rs)

\* C10: after the scan the best id is the id of the record with the maximum
\* test_dice_metric, the first such record on ties (a collection with a
\* record above the sentinel 0).
C10_BestIdIsFirstMaximum ==
    (ScanDone /\ \E i \in 1..Len(results) : results[i].test_dice_metric > 0) =>
        scan.id = Some(results[FirstMaximum(results)].id)

\* C11: when every record of the collection has test_dice_metric 0, or the
\* collection is empty, the best id is still unset (None) after the scan.
C11_AllZeroLeavesIdUnset ==
    (ScanDone /\ \A i \in 1..Len(results) : results[i].test_dice_metric = 0) =>
        scan.id = None

\* the scan went over two or more records, all of dice 0
C11_Witness ==
    /\ ScanDone
    /\ Len(results) >= 2
    /\ Len(scan.dice) = Len(results)
    /\ \A i \in 1..Len(results) : results[i].test_dice_metric = 0
    /\ scan.id = None

\* ------------------------------------------------------------ setup frame
\* the step is a setup(stage) call on the instance
SetupStep(stage) ==
    /\ Alive
    /\ last' = Called("setup", stage, "none", None)
    /\ dm' # None

\* the fields setup never assigns
FrameOfSetup(self) ==
    <<self.n_folds, self.fold_index, self.data, self.folds, self.training_data,
      self.validation_data, self.test_data, self.visualization_data, self.error>>

\* C16: a setup(stage) call changes only the dataset subsets of its own stage:
\* the patient records, the stored folds, the four record lists and the
\* subsets of the other stages stay as they were, and a stage string that is
\* none of fit, test, visualize changes nothing.
C16_SetupChangesOnlyItsStage ==
    [][\A stage \in Stages : SetupStep(stage) =>
          /\ FrameOfSetup(Val(dm')) = FrameOfSetup(Val(dm))
          /\ data_dir' = data_dir
          /\ stage \notin {Some("fit"), None} =>
                /\ Val(dm').training_set = Val(dm).training_set
                /\ Val(dm').validation_set = Val(dm).validation_set
          /\ stage \notin {Some("test"), None} => Val(dm').test_set = Val(dm).test_set
          /\ stage \notin {Some("visualize"), None} =>
                Val(dm').visualization_set = Val(dm).visualization_set
          /\ stage = Some("predict") => dm' = dm]_vars

\* after setup('fit') on a module whose test subset an earlier setup('test')
\* built: the fit subsets are built and the visualization subset still unset
C16_Witness ==
    /\ last # None /\ Val(last).op = "setup" /\ Val(last).stage = Some("fit")
    /\ Val(dm).training_set # None
    /\ Val(dm).test_set # None
    /\ Val(dm).visualization_set = None
    /\ Len(Val(Val(dm).validation_data)) >= 1

\* ------------------------------------------------------------ test-run properties
TestEnded == trainer.pc \in {"tested", "saved"}

\* C12: test-epoch-end stores as the model's test results exactly the step
\* records it is given, in the same order with the same values; before the
\* first test-epoch-end the test results are unset.
C12_TestEpochEndStoresOutputs ==
    /\ trainer.pc \in {"testing", "aborted"} => unet.test_results = None
    /\ TestEnded =>
          /\ unet.test_results # None
          /\ Len(Val(unet.test_results)) = Len(trainer.batches)
          /\ \A i \in 1..Len(trainer.batches) :
                Val(unet.test_results)[i] = trainer.outputs[i]

\* test-epoch-end ran over two step records with a metric each
C12_Witness ==
    /\ TestEnded
    /\ Len(trainer.outputs) = 2
    /\ unet.test_results = Some(trainer.outputs)
    /\ "test_dice_metric" \in DOMAIN trainer.outputs[2]

\* C13: each test step returns one record holding 'id', 'time' and one key
\* 'test_<metric name>' for every configured metric; 'id' is the single
\* patient id of a batch of one and the tuple of the batch's ids, in batch
\* order, of a larger batch.
C13_TestStepRecordKeys ==
    \A i \in 1..Len(trainer.outputs) :
        /\ DOMAIN trainer.outputs[i] =
              {"id", "time"} \cup { TestKey(unet.metrics[j]) : j \in 1..Len(unet.metrics) }
        /\ trainer.outputs[i]["id"].of = trainer.batches[i].id
        /\ trainer.outputs[i]["id"].tuple = (Len(trainer.batches[i].id) > 1)

\* C14: the results file is written only after the test stage completed (all
\* test steps and test-epoch-end done, nothing raised), and holds the test
\* results; when a test step or collaborator raises, no file is written.
C14_ResultsSavedOnlyAfterTest ==
    /\ file # None =>
          /\ trainer.pc = "saved"
          /\ trainer.raised = "none"
          /\ Len(trainer.outputs) = Len(trainer.batches)
          /\ file = Some(unet.test_results)
          /\ unet.test_results = Some(trainer.outputs)
    /\ trainer.raised # "none" => file = None

\* the file written after a test stage of two steps
C14_Witness ==
    /\ file # None
    /\ trainer.pc = "saved"
    /\ Len(trainer.outputs) = 2
    /\ Val(file) = Some(trainer.outputs)

\* ------------------------------------------------------------ get_data properties
PatientNames == { name \in listdir(root) : IsPatient(name) }

\* a valid root: the expected name, and every patient folder holds a file of
\* each modality and, for a labeled scan, a segmentation file
ValidRoot(labeled) ==
    /\ root.name_ok
    /\ \A name \in PatientNames :
          /\ \A k \in 1..Len(Modalities) :
                \E f \in FilesOf(root, name) : f.modality = Modalities[k]
          /\ labeled => \E f \in FilesOf(root, name) : f.modality = "seg"

\* C15: over a valid root with N patient folders get_data returns exactly N
\* records, one per folder in sorted id order, each with exactly 4 input
\* paths in the order T1, T1-contrast, T2, FLAIR and, when labeled, one
\* target path (no target key when unlabeled).
C15_GetDataOneRecordPerPatient ==
    (patients # None /\ ValidRoot(Val(patients).labeled)) =>
        LET got == Val(patients).value
        IN /\ Val(patients).raised = "none"
           /\ Len(got) = Cardinality(PatientNames)
           /\ { got[i].id : i \in 1..Len(got) } = PatientNames
           /\ \A i, j \in 1..Len(got) : i < j => got[i].id.n < got[j].id.n
           /\ \A i \in 1..Len(got) :
                 /\ Len(got[i].input) = 4
                 /\ \A k \in 1..4 :
                       /\ got[i].input[k].id = got[i].id
                       /\ got[i].input[k].file \in FilesOf(root, got[i].id)
                       /\ got[i].input[k].file.modality = Modalities[k]
                 /\ ("target" \in DOMAIN got[i]) = Val(patients).labeled
                 /\ Val(patients).labeled =>
                       /\ got[i].target.id = got[i].id
                       /\ got[i].target.file \in FilesOf(root, got[i].id)
                       /\ got[i].target.file.modality = "seg"

\* a labeled scan of two or more patient folders beside other entries
C15_Witness ==
    /\ patients # None
    /\ Val(patients).labeled
    /\ ValidRoot(TRUE)
    /\ Cardinality(PatientNames) >= 2
    /\ listdir(root) # PatientNames
    /\ Len(Val(patients).value) = Cardinality(PatientNames)
====
